---- MODULE Spec2Model ----
(***************************************************************************)
(* A model of the retrieval pipeline of rag_service:                       *)
(*   - TextSplitter.split_text            (app/rag/text_splitter.py)       *)
(*   - OpenRouterLLM.chat_completion      (app/rag/llm.py)                 *)
(*   - RAGService.search_hybrid and the context building of chat_with_rag  *)
(*                     (app/rag/rag_service.py, app/api/endpoints/chat.py) *)
(*   - RAGService.process_document        (app/rag/rag_service.py)         *)
(*   - QdrantVectorStore                  (app/rag/vectorstore.py)         *)
(* Each part has its own variables and its own specification; the          *)
(* variables of the other parts stay at their initial values.              *)
(***************************************************************************)
EXTENDS Integers, Sequences, FiniteSets, TLC

VARIABLES
    \* ---- TextSplitter.split_text
    raw_text,       \* the argument `text` of split_text
    text,           \* the local `text` after strip() and re.sub(r"\s+", " ")
    chunk_size,     \* self.chunk_size
    chunk_overlap,  \* self.chunk_overlap
    start,          \* the local `start`
    chunks,         \* the local `chunks` (the returned list once split_pc = "done")
    split_pc,       \* "call" | "loop" | "done"
    starts,         \* history: the value of `start` at the head of every iteration so far
    windows,        \* history: for every chunk, the [start, end) it was sliced from
    \* ---- chat_with_rag, RAGService.search_hybrid, OpenRouterLLM
    chat_pc,        \* the position of the chat request in chat_with_rag
    request,        \* the ChatRequest and current_user.id
    session_messages,     \* session.messages: the ChatMessage rows of the session
    private_writes, \* texts this request stored in the user's private collection
    document_k,     \* search_hybrid: document_k (0 before the search)
    message_k,      \* search_hybrid: message_k (0 when no message search is made)
    document_results,     \* search_hybrid: document_results
    message_results,      \* search_hybrid: message_results
    similar_docs,   \* chat_with_rag: similar_docs, the list search_hybrid returned
    context_parts,  \* chat_with_rag: context_parts
    sources,        \* chat_with_rag: sources (<<>> is None, <<list>> a list)
    k_points_used,  \* chat_with_rag: k_points_used
    context,        \* chat_with_rag: context (<<>> is None, <<s>> the string s)
    conversation_history, \* the history handed to chat_completion
    llm_messages,   \* the `messages` handed to client.chat.completions.create
    response,       \* the ChatResponse (<<>> before the request ends)
    \* ---- the Qdrant server behind QdrantVectorStore.client
    collections,    \* the names of the collections that exist
    points,         \* collection name -> the points stored in it
    next_uuid,      \* the uuid4 values drawn so far, plus one
    \* ---- coroutines in QdrantVectorStore.add_user_message / search_user_messages
    coroutine,      \* coroutine -> its call and its position in it
    \* ---- RAGService.process_document and the relational store
    db_documents,   \* the committed Document rows
    db_chunks,      \* the committed DocumentChunk rows
    next_document_id,     \* the next value of the documents.id sequence
    ingest,         \* ingest request -> its position in process_document and its locals
    deleting,       \* delete request -> its position in delete_document and its locals
    \* ---- EmbeddingModel and the coroutines that call it
    embed_requests, \* request -> what it needs and its position
    work_queue,     \* executor._work_queue: the submitted calls no worker has taken
    encoding        \* the calls of self.encode in progress, each with its thread

splitVars == <<raw_text, text, chunk_size, chunk_overlap, start, chunks, split_pc, starts,
              windows>>

chatVars == <<chat_pc, request, session_messages, private_writes, document_k, message_k,
              document_results, message_results, similar_docs, context_parts, sources,
              k_points_used, context, conversation_history, llm_messages, response>>

qdrantVars == <<collections, points, next_uuid>>

storeVars == <<coroutine>>

ingestVars == <<db_documents, db_chunks, next_document_id, ingest, deleting>>

embedVars == <<embed_requests, work_queue, encoding>>

vars == <<splitVars, chatVars, qdrantVars, storeVars, ingestVars, embedVars>>

\* what the actions of one part leave unchanged
notSplit == <<chatVars, qdrantVars, storeVars, ingestVars, embedVars>>

notChat == <<splitVars, qdrantVars, storeVars, ingestVars, embedVars>>

notStore == <<splitVars, chatVars, ingestVars, embedVars>>

notIngest == <<splitVars, chatVars, storeVars, embedVars>>

notEmbed == <<splitVars, chatVars, qdrantVars, storeVars, ingestVars>>

(***************************************************************************)
(* Generic helpers                                                         *)
(***************************************************************************)
Range(s) == {s[i] : i \in 1..Len(s)}

MaxOf(S) == CHOOSE x \in S : \A y \in S : y <= x

MinOf(S) == CHOOSE x \in S : \A y \in S : x <= y

Max2(a, b) == IF a >= b THEN a ELSE b

Min2(a, b) == IF a <= b THEN a ELSE b

SeqsUpTo(S, n) == UNION {[1..m -> S] : m \in 0..n}

(***************************************************************************)
(* Bounds of the splitter model                                            *)
(***************************************************************************)
\* longest input text
MaxLen == 4

\* largest chunk_size / chunk_overlap given to the TextSplitter constructor
MaxSize == 3

\* settings.chunk_size and settings.chunk_overlap (defaults 1000 and 200,
\* overridable from the environment), scaled to the texts of the model
SettingsChunkSize == 3

SettingsChunkOverlap == 1

\* no terminating run of the loop needs more iterations than this (the loop
\* body is a function of `start`, which then ranges over fewer values)
IterCap == MaxLen + MaxSize + SettingsChunkOverlap

\* characters: a letter, a sentence terminator, and the two whitespace
\* characters " " and "\n"
Whitespace == {" ", "\n"}

Alphabet == {"a", "."} \cup Whitespace

(***************************************************************************)
(* Python string primitives, 0-based as in the source                      *)
(***************************************************************************)
\* slice index normalisation of str.rfind(sub, start, end) and text[start:end]
ClampIdx(i, n) ==
    IF i < 0 THEN (IF i + n < 0 THEN 0 ELSE i + n)
    ELSE IF i > n THEN n ELSE i

\* text.rfind(ch, s, e): highest index in the slice holding ch, or -1
RFind(t, ch, s, e) ==
    LET n == Len(t)
        lo == ClampIdx(s, n)
        hi == ClampIdx(e, n)
        hits == {i \in lo..(hi - 1) : t[i + 1] = ch}
    IN IF hits = {} THEN -1 ELSE MaxOf(hits)

\* text[s:e]
Slice(t, s, e) ==
    LET n == Len(t)
        lo == ClampIdx(s, n)
        hi == ClampIdx(e, n)
    IN IF lo >= hi THEN <<>> ELSE SubSeq(t, lo + 1, hi)

\* str.strip()
Strip(t) ==
    LET keep == {i \in 1..Len(t) : t[i] \notin Whitespace}
    IN IF keep = {} THEN <<>> ELSE SubSeq(t, MinOf(keep), MaxOf(keep))

\* re.sub(r"\s+", " ", t): every maximal run of whitespace becomes one space
\* (the last character of a run stands for the run); the text is worked on
\* by halves
RECURSIVE CollapseRange(_, _, _)
CollapseRange(t, lo, hi) ==
    IF lo > hi THEN <<>>
    ELSE IF lo = hi
         THEN IF t[lo] \in Whitespace
              THEN IF lo < Len(t) /\ t[lo + 1] \in Whitespace THEN <<>> ELSE <<" ">>
              ELSE <<t[lo]>>
         ELSE LET mid == (lo + hi) \div 2
              IN CollapseRange(t, lo, mid) \o CollapseRange(t, mid + 1, hi)

CollapseWs(t) == CollapseRange(t, 1, Len(t))

\* mutant: the ends are trimmed but runs of whitespace are kept
NormalizeTrimOnly(t) == Strip(t)

\* text = re.sub(r"\s+", " ", text.strip())
NormalizeText(t) == CollapseWs(Strip(t))

(***************************************************************************)
(* TextSplitter                                                            *)
(***************************************************************************)
\* TextSplitter.__init__: `chunk_size or settings.chunk_size`; 0 stands for
\* both None and 0, which `or` treats alike
InitChunkSize(arg) == IF arg = 0 THEN SettingsChunkSize ELSE arg

\* TextSplitter.__init__: `chunk_overlap or settings.chunk_overlap`
InitChunkOverlap(arg) == IF arg = 0 THEN SettingsChunkOverlap ELSE arg

\* the place of the break for the window [s, s + chunk_size)
BreakEnd(t, s, size) ==
    LET end == s + size
        last_space == RFind(t, " ", s, end)
        last_punct == MaxOf({RFind(t, ".", s, end), RFind(t, "!", s, end),
                             RFind(t, "?", s, end), RFind(t, "\n", s, end)})
    IN IF end < Len(t)
       THEN IF last_punct > last_space /\ last_punct > s THEN last_punct + 1
            ELSE IF last_space > s THEN last_space + 1
            ELSE end
       ELSE end

\* mutant: the next window starts after the break, leaving a character out
LoopBodyGap(t, size, overlap, s, acc) ==
    LET end == BreakEnd(t, s, size)
        chunk == Strip(Slice(t, s, end))
    IN [start |-> end + 1,
        end |-> end,
        chunks |-> IF chunk # <<>> THEN Append(acc, chunk) ELSE acc]

\* mutant: the next window starts one character further back
LoopBodyWide(t, size, overlap, s, acc) ==
    LET end == BreakEnd(t, s, size)
        chunk == Strip(Slice(t, s, end))
    IN [start |-> end - overlap - 1,
        end |-> end,
        chunks |-> IF chunk # <<>> THEN Append(acc, chunk) ELSE acc]

\* mutant: the chunk is appended without the `if chunk` test
LoopBodyKeepsEmpty(t, size, overlap, s, acc) ==
    LET end == BreakEnd(t, s, size)
        chunk == Strip(Slice(t, s, end))
    IN [start |-> end - overlap,
        end |-> end,
        chunks |-> Append(acc, chunk)]

\* the body of the loop: the chunk of the window at s is appended when it is
\* not empty, and the next window starts chunk_overlap before the break
LoopBody(t, size, overlap, s, acc) ==
    LET end == BreakEnd(t, s, size)
        chunk == Strip(Slice(t, s, end))
    IN [start |-> end - overlap,
        end |-> end,
        chunks |-> IF chunk # <<>> THEN Append(acc, chunk) ELSE acc]

\* the loop run to its end.  The body is a function of the window start, so
\* a start met a second time means the loop never ends (returns = FALSE).
RECURSIVE RunLoop(_, _, _, _, _, _)
RunLoop(t, size, overlap, s, acc, seen) ==
    IF s \in seen THEN [returns |-> FALSE, chunks |-> acc]
    ELSE LET body == LoopBody(t, size, overlap, s, acc)
         IN IF body.start >= Len(t) THEN [returns |-> TRUE, chunks |-> body.chunks]
            ELSE RunLoop(t, size, overlap, body.start, body.chunks, seen \cup {s})

\* split_text as a function of its input: what it returns, if it returns
SplitText(raw, size, overlap) ==
    IF Strip(raw) = <<>> THEN [returns |-> TRUE, chunks |-> <<>>]
    ELSE LET t == NormalizeText(raw)
         IN IF Len(t) <= size THEN [returns |-> TRUE, chunks |-> <<t>>]
            ELSE RunLoop(t, size, overlap, 0, <<>>, {})

\* split_text up to the loop: the empty and the short text return at once
SplitCall ==
    /\ split_pc = "call"
    /\ IF Strip(raw_text) = <<>>
       THEN /\ split_pc' = "done"
            /\ UNCHANGED <<text, chunks, start, windows>>
       ELSE /\ text' = NormalizeText(raw_text)
            /\ IF Len(text') <= chunk_size
               THEN /\ chunks' = <<text'>>
                    /\ windows' = <<[start |-> 0, end |-> Len(text')]>>
                    /\ split_pc' = "done"
                    /\ start' = start
               ELSE /\ chunks' = <<>>
                    /\ windows' = <<>>
                    /\ start' = 0
                    /\ split_pc' = "loop"
    /\ UNCHANGED <<raw_text, chunk_size, chunk_overlap, starts>>
    /\ UNCHANGED notSplit

\* one iteration of `while start < len(text)`
SplitLoop ==
    /\ split_pc = "loop"
    /\ Len(starts) < IterCap
    /\ LET body == LoopBody(text, chunk_size, chunk_overlap, start, chunks)
       IN /\ chunks' = body.chunks
          /\ start' = body.start
          /\ split_pc' = IF start' >= Len(text) THEN "done" ELSE "loop"
          /\ windows' = IF Len(body.chunks) > Len(chunks)
                        THEN Append(windows, [start |-> start, end |-> body.end])
                        ELSE windows
    /\ starts' = Append(starts, start)
    /\ UNCHANGED <<raw_text, text, chunk_size, chunk_overlap>>
    /\ UNCHANGED notSplit

\* a TextSplitter built with any arguments, about to split any text
SplitInit ==
    /\ raw_text \in SeqsUpTo(Alphabet, MaxLen)
    /\ \E cs \in 0..MaxSize, co \in 0..MaxSize :
          /\ chunk_size = InitChunkSize(cs)
          /\ chunk_overlap = InitChunkOverlap(co)
    /\ text = <<>>
    /\ start = 0
    /\ chunks = <<>>
    /\ split_pc = "call"
    /\ starts = <<>>
    /\ windows = <<>>

\* the splitter at rest, in the specifications of the other parts
SplitIdle ==
    /\ raw_text = <<>>
    /\ chunk_size = SettingsChunkSize
    /\ chunk_overlap = SettingsChunkOverlap
    /\ text = <<>>
    /\ start = 0
    /\ chunks = <<>>
    /\ split_pc = "call"
    /\ starts = <<>>
    /\ windows = <<>>

SplitNext == SplitCall \/ SplitLoop

(***************************************************************************)
(* The end-to-end scenario: a document of 2500 characters, default sizes   *)
(***************************************************************************)
\* the length of the normalized text of the scenario
ScenarioLength == 2500

\* settings.chunk_size and settings.chunk_overlap as config.py sets them
DefaultChunkSize == 1000

DefaultChunkOverlap == 200

\* where the texts of the scenario may have a space (0-based, never at an
\* end and never next to each other, so that the texts are normalized)
SpaceCandidates == {500, 900, 1500, 1700, 2449}

\* a text of ScenarioLength letters, with spaces at the given positions
ScenarioText(spaces) ==
    [i \in 1..ScenarioLength |-> IF (i - 1) \in spaces THEN " " ELSE "a"]

\* the default TextSplitter about to split a text of the scenario
ScenarioInit ==
    /\ \E spaces \in SUBSET SpaceCandidates : raw_text = ScenarioText(spaces)
    /\ chunk_size = DefaultChunkSize
    /\ chunk_overlap = DefaultChunkOverlap
    /\ text = <<>>
    /\ start = 0
    /\ chunks = <<>>
    /\ split_pc = "call"
    /\ starts = <<>>
    /\ windows = <<>>

(***************************************************************************)
(* Bounds and values of the chat model                                     *)
(***************************************************************************)
\* most results the vector store returns to one sub-search
MaxHits == 2

\* largest k_points of a request of the chat specification
MaxK == 3

\* most ChatMessage rows a session holds before the request
MaxPrior == 1

\* longest history handed to chat_completion on its own
MaxHistory == 3

\* ChatRequest.k_points: Field(ge=1, le=20)
MinKPoints == 1

MaxKPoints == 20

\* session.messages[-10:]
HistoryLimit == 10

\* documents_weight = 0.7 and user_messages_weight = 0.3, in tenths
DocumentsWeight == 7

UserMessagesWeight == 3

\* the relevance floor `score > 0.6`, in tenths
RelevanceFloor == 6

\* scores are counted in units of 1/7000, so that a weighted score can fall
\* exactly on the floor (0.6 = 0.7 * 6000/7000)
ScoreOne == 7 * 1000

\* the floor in score units
Threshold == (RelevanceFloor * ScoreOne) \div 10

\* cosine scores the store answers with: 0.407, 0.8, 6/7, 0.9, 0.95, 1.0
ScoreSamples == {2850, 5600, 6000, 6300, 6650, ScoreOne}

Contents == {"q1", "q2"}

Roles == {"user", "assistant"}

\* {"role": ..., "content": ...}
Messages == [role : Roles, content : Contents]

\* the answer of the provider
AnswerText == "a1"

(***************************************************************************)
(* The vector store's answer to a search (external): at most max(1, k)     *)
(* results in descending order of score                                    *)
(***************************************************************************)
DocMetadata(user_id) ==
    [content_type |-> "document_chunk", document_title |-> "Doc", user_id |-> user_id]

MsgMetadata(user_id) ==
    [content_type |-> "chat_message", session_id |-> 1, user_id |-> user_id]

Descending(f) == \A i \in DOMAIN f : \A j \in DOMAIN f : i < j => f[i] >= f[j]

\* the answers a collection can give to similarity_search(k): result i carries
\* the text <prefix>i
StoreAnswers(k, prefix, metadata) ==
    {[i \in 1..n |-> [text |-> prefix \o ToString(i), score |-> f[i], metadata |-> metadata]] :
        <<n, f>> \in {<<m, g>> \in UNION {{m} \X [1..m -> ScoreSamples] :
                                            m \in 0..Min2(Max2(1, k), MaxHits)} :
                        Descending(g)}}

(***************************************************************************)
(* RAGService.search_hybrid                                                *)
(***************************************************************************)
\* mutant: the raw score, whatever the weight of its source
WeightedFull(score, weight) == score

\* score * documents_weight, with the weight in tenths
Weighted(score, weight) == (score * weight) \div 10

\* int(k * weight): truncation, which for k >= 0 is the floor
IntOfProduct(k, weight) == (k * weight) \div 10

\* round(n / 10) as Python rounds: to the nearest, a half to the even neighbour
RoundTenths(n) ==
    LET q == n \div 10
        r == n % 10
    IN IF r < 5 THEN q
       ELSE IF r > 5 THEN q + 1
       ELSE IF q % 2 = 0 THEN q ELSE q + 1

\* mutant: document_k rounded instead of truncated
DocumentKRounded(k) == Max2(1, RoundTenths(k * DocumentsWeight))

\* document_k = max(1, int(k * documents_weight))
DocumentK(k) == Max2(1, IntOfProduct(k, DocumentsWeight))

\* message_k = max(1, int(k * user_messages_weight))
MessageK(k) == Max2(1, IntOfProduct(k, UserMessagesWeight))

\* all_results.append((text, score * weight, metadata)) for every result
WeightAll(results, weight) ==
    [i \in 1..Len(results) |->
        [results[i] EXCEPT !.score = Weighted(results[i].score, weight)]]

\* list.sort(key=score, reverse=True) is stable: equal scores keep their order
RECURSIVE InsertDesc(_, _)
InsertDesc(sorted, r) ==
    IF sorted = <<>> THEN <<r>>
    ELSE IF Head(sorted).score >= r.score
         THEN <<Head(sorted)>> \o InsertDesc(Tail(sorted), r)
         ELSE <<r>> \o sorted

RECURSIVE SortDesc(_)
SortDesc(results) ==
    IF results = <<>> THEN <<>>
    ELSE InsertDesc(SortDesc(SubSeq(results, 1, Len(results) - 1)), results[Len(results)])

\* all_results[:k]
Take(s, k) == SubSeq(s, 1, Min2(k, Len(s)))

\* mutant: the merge without the source weights
FuseUnweighted(docs, msgs, k) == Take(SortDesc(docs \o msgs), k)

\* the merge of search_hybrid
FuseResults(docs, msgs, k) ==
    Take(SortDesc(WeightAll(docs, DocumentsWeight) \o WeightAll(msgs, UserMessagesWeight)), k)

(***************************************************************************)
(* chat_with_rag: context building                                         *)
(***************************************************************************)
\* dict.get(key, default)
Get(d, key, default) == IF key \in DOMAIN d THEN d[key] ELSE default

SourceName(metadata) ==
    LET content_type == Get(metadata, "content_type", "unknown")
    IN IF content_type = "document_chunk"
       THEN Get(metadata, "document_title", "Unknown Document")
       ELSE IF content_type = "chat_message"
            THEN "Previous Message (Session "
                    \o (IF "session_id" \in DOMAIN metadata
                        THEN ToString(metadata["session_id"]) ELSE "Unknown")
                    \o ")"
            ELSE "Unknown Source"

\* mutant: a result on the floor passes
PassesFloorInclusive(score) == score >= Threshold

\* `if score > 0.6`
PassesFloor(score) == score > Threshold

\* the results whose text enters the context
Surviving(results) == SelectSeq(results, LAMBDA r : PassesFloor(r.score))

\* sep.join(parts)
RECURSIVE Join(_, _)
Join(parts, sep) ==
    IF parts = <<>> THEN ""
    ELSE IF Len(parts) = 1 THEN parts[1]
    ELSE parts[1] \o sep \o Join(Tail(parts), sep)

(***************************************************************************)
(* OpenRouterLLM                                                           *)
(***************************************************************************)
\* any(msg.content == user_message and msg.role == "user" for msg in messages)
CurrentMessageInHistory(history, user_message) ==
    \E i \in 1..Len(history) :
        history[i].content = user_message /\ history[i].role = "user"

\* mutant: the new message is appended whatever the history holds
CompletionMessagesAlways(history, user_message) ==
    Append(history, [role |-> "user", content |-> user_message])

\* chat_completion: the messages handed to generate_response
CompletionMessages(history, user_message) ==
    IF ~CurrentMessageInHistory(history, user_message)
    THEN Append(history, [role |-> "user", content |-> user_message])
    ELSE history

\* the injected system message
SystemMessage(ctx) == [role |-> "system", content |-> "Context: " \o ctx]

\* mutant: the system message is injected whenever use_rag is set
InjectsContextAlways(use_rag, ctx) == use_rag

\* `if use_rag and context`: a context that is neither None nor ""
InjectsContext(use_rag, ctx) == use_rag /\ ctx # <<>> /\ ctx[1] # ""

\* generate_response: the messages sent to the provider
ProviderMessages(messages, use_rag, ctx) ==
    IF InjectsContext(use_rag, ctx)
    THEN <<SystemMessage(IF ctx = <<>> THEN "" ELSE ctx[1])>> \o messages
    ELSE messages

\* session.messages[-10:]
LastN(s, n) == IF Len(s) <= n THEN s ELSE SubSeq(s, Len(s) - n + 1, Len(s))

\* mutant: the user's message is not committed before the provider is called
ChatReceiveUncommitted ==
    /\ chat_pc = "request"
    /\ chat_pc' = "store_user"
    /\ UNCHANGED <<request, session_messages, private_writes, document_k, message_k,
                   document_results, message_results, similar_docs, context_parts, sources,
                   k_points_used, context, conversation_history, llm_messages, response>>
    /\ UNCHANGED notChat

\* mutant: a failure of add_user_message leaves chat_with_rag
ChatStoreUserMessageStrict ==
    /\ chat_pc = "store_user"
    /\ \/ /\ private_writes' = Append(private_writes, request.message)
          /\ chat_pc' = "search"
       \/ /\ private_writes' = private_writes
          /\ chat_pc' = "failed_store"
    /\ UNCHANGED <<request, session_messages, document_k, message_k, document_results,
                   message_results, similar_docs, context_parts, sources, k_points_used,
                   context, conversation_history, llm_messages, response>>
    /\ UNCHANGED notChat

\* mutant: the search runs whatever use_rag says
ChatRetrieveAlways ==
    /\ chat_pc = "search"
    /\ document_k' = DocumentK(request.k_points)
    /\ message_k' = MessageK(request.k_points)
    /\ document_results' \in StoreAnswers(document_k', "doc", DocMetadata(request.user_id))
    /\ message_results' \in StoreAnswers(message_k', "msg", MsgMetadata(request.user_id))
    /\ similar_docs' = FuseResults(document_results', message_results', request.k_points)
    /\ LET kept == Surviving(similar_docs')
       IN /\ context_parts' = [i \in 1..Len(kept) |-> kept[i].text]
          /\ sources' = <<[i \in 1..Len(kept) |-> SourceName(kept[i].metadata)]>>
          /\ k_points_used' = Len(kept)
          /\ context' = IF kept # <<>> THEN <<Join(context_parts', "\n\n")>> ELSE <<>>
    /\ chat_pc' = "history"
    /\ UNCHANGED <<request, session_messages, private_writes, conversation_history,
                   llm_messages, response>>
    /\ UNCHANGED notChat

\* mutant: the response reports the counter whatever use_rag says
ChatRespondAlwaysCounts ==
    /\ chat_pc = "store_assistant"
    /\ \/ private_writes' = Append(private_writes, AnswerText)
       \/ private_writes' = private_writes
    /\ response' = <<[message |-> AnswerText,
                      sources |-> sources,
                      k_points_used |-> <<k_points_used>>]>>
    /\ chat_pc' = "done"
    /\ UNCHANGED <<request, session_messages, document_k, message_k, document_results,
                   message_results, similar_docs, context_parts, sources, k_points_used,
                   context, conversation_history, llm_messages>>
    /\ UNCHANGED notChat

(***************************************************************************)
(* chat_with_rag, one request                                              *)
(***************************************************************************)
\* lines 32-66: the session is fetched or created and the user's message is
\* committed as a ChatMessage row
ChatReceive ==
    /\ chat_pc = "request"
    /\ session_messages' =
            Append(session_messages, [role |-> "user", content |-> request.message])
    /\ chat_pc' = "store_user"
    /\ UNCHANGED <<request, private_writes, document_k, message_k, document_results,
                   message_results, similar_docs, context_parts, sources, k_points_used,
                   context, conversation_history, llm_messages, response>>
    /\ UNCHANGED notChat

\* lines 68-86: rag_service.add_user_message inside try/except: a failure is
\* logged and the request goes on
ChatStoreUserMessage ==
    /\ chat_pc = "store_user"
    /\ \/ private_writes' = Append(private_writes, request.message)
       \/ private_writes' = private_writes
    /\ chat_pc' = "search"
    /\ UNCHANGED <<request, session_messages, document_k, message_k, document_results,
                   message_results, similar_docs, context_parts, sources, k_points_used,
                   context, conversation_history, llm_messages, response>>
    /\ UNCHANGED notChat

\* lines 88-137: search_hybrid (rag_service.py 146-199) and the building of
\* the context, or neither when use_rag is false
ChatRetrieve ==
    /\ chat_pc = "search"
    /\ \/ /\ request.use_rag
          /\ request.user_id # 0
          /\ document_k' = DocumentK(request.k_points)
          /\ message_k' = MessageK(request.k_points)
          /\ document_results' \in
                StoreAnswers(document_k', "doc", DocMetadata(request.user_id))
          /\ message_results' \in
                StoreAnswers(message_k', "msg", MsgMetadata(request.user_id))
          /\ similar_docs' = FuseResults(document_results', message_results', request.k_points)
       \/ \* `if not user_id`: search_similar on the shared collection alone
          /\ request.use_rag
          /\ request.user_id = 0
          /\ document_k' = request.k_points
          /\ message_k' = 0
          /\ document_results' \in StoreAnswers(document_k', "doc", DocMetadata(1))
          /\ message_results' = <<>>
          /\ similar_docs' = document_results'
       \/ /\ ~request.use_rag
          /\ UNCHANGED <<document_k, message_k, document_results, message_results,
                         similar_docs>>
    /\ IF request.use_rag /\ similar_docs' # <<>>
       THEN LET kept == Surviving(similar_docs')
            IN /\ context_parts' = [i \in 1..Len(kept) |-> kept[i].text]
               /\ sources' = <<[i \in 1..Len(kept) |-> SourceName(kept[i].metadata)]>>
               /\ k_points_used' = Len(kept)
               /\ context' = IF kept # <<>>
                             THEN <<Join(context_parts', "\n\n")>>
                             ELSE <<>>
       ELSE UNCHANGED <<context_parts, sources, k_points_used, context>>
    /\ chat_pc' = "history"
    /\ UNCHANGED <<request, session_messages, private_writes, conversation_history,
                   llm_messages, response>>
    /\ UNCHANGED notChat

\* a vector-store call of search_hybrid fails: the error leaves chat_with_rag
ChatRetrieveFails ==
    /\ chat_pc = "search"
    /\ request.use_rag
    /\ chat_pc' = "failed_search"
    /\ UNCHANGED <<request, session_messages, private_writes, document_k, message_k,
                   document_results, message_results, similar_docs, context_parts,
                   sources, k_points_used, context, conversation_history, llm_messages,
                   response>>
    /\ UNCHANGED notChat

\* lines 139-153: the last 10 messages of the session, oldest first
ChatLoadHistory ==
    /\ chat_pc = "history"
    /\ conversation_history' = LastN(session_messages, HistoryLimit)
    /\ chat_pc' = "llm"
    /\ UNCHANGED <<request, session_messages, private_writes, document_k, message_k,
                   document_results, message_results, similar_docs, context_parts,
                   sources, k_points_used, context, llm_messages, response>>
    /\ UNCHANGED notChat

\* lines 155-162 and llm.py 19-119: chat_completion and generate_response up
\* to the provider's answer
ChatLLM ==
    /\ chat_pc = "llm"
    /\ llm_messages' =
            ProviderMessages(CompletionMessages(conversation_history, request.message),
                             request.use_rag, context)
    /\ chat_pc' = "save_assistant"
    /\ UNCHANGED <<request, session_messages, private_writes, document_k, message_k,
                   document_results, message_results, similar_docs, context_parts,
                   sources, k_points_used, context, conversation_history, response>>
    /\ UNCHANGED notChat

\* the provider call raises: generate_response logs and re-raises
ChatLLMFails ==
    /\ chat_pc = "llm"
    /\ llm_messages' =
            ProviderMessages(CompletionMessages(conversation_history, request.message),
                             request.use_rag, context)
    /\ chat_pc' = "failed_llm"
    /\ UNCHANGED <<request, session_messages, private_writes, document_k, message_k,
                   document_results, message_results, similar_docs, context_parts,
                   sources, k_points_used, context, conversation_history, response>>
    /\ UNCHANGED notChat

\* lines 164-170: the assistant's answer is committed as a ChatMessage row
ChatSaveAssistant ==
    /\ chat_pc = "save_assistant"
    /\ session_messages' =
            Append(session_messages, [role |-> "assistant", content |-> AnswerText])
    /\ chat_pc' = "store_assistant"
    /\ UNCHANGED <<request, private_writes, document_k, message_k, document_results,
                   message_results, similar_docs, context_parts, sources, k_points_used,
                   context, conversation_history, llm_messages, response>>
    /\ UNCHANGED notChat

\* lines 172-201: the answer goes to the private collection (try/except as
\* for the user's message) and the ChatResponse is returned
ChatRespond ==
    /\ chat_pc = "store_assistant"
    /\ \/ private_writes' = Append(private_writes, AnswerText)
       \/ private_writes' = private_writes
    /\ response' = <<[message |-> AnswerText,
                      sources |-> sources,
                      k_points_used |-> IF request.use_rag THEN <<k_points_used>> ELSE <<>>]>>
    /\ chat_pc' = "done"
    /\ UNCHANGED <<request, session_messages, document_k, message_k, document_results,
                   message_results, similar_docs, context_parts, sources, k_points_used,
                   context, conversation_history, llm_messages>>
    /\ UNCHANGED notChat

\* the rows a session can hold: every assistant row follows the user row of
\* its request
SessionLike(s) ==
    \A n \in 1..Len(s) :
        Cardinality({i \in 1..n : s[i].role = "assistant"})
            <= Cardinality({i \in 1..n : s[i].role = "user"})

\* the values of the request's locals before chat_with_rag assigns them
ChatLocalsInit ==
    /\ private_writes = <<>>
    /\ document_k = 0
    /\ message_k = 0
    /\ document_results = <<>>
    /\ message_results = <<>>
    /\ similar_docs = <<>>
    /\ context_parts = <<>>
    /\ sources = <<>>
    /\ k_points_used = 0
    /\ llm_messages = <<>>
    /\ response = <<>>

\* a chat request of user 1 arrives, for a new or an existing session
ChatInit ==
    /\ chat_pc = "request"
    /\ request \in [message : Contents, use_rag : BOOLEAN, k_points : MinKPoints..MaxK,
                    user_id : {1}]
    /\ session_messages \in {s \in SeqsUpTo(Messages, MaxPrior) : SessionLike(s)}
    /\ conversation_history = <<>>
    /\ context = <<>>
    /\ ChatLocalsInit

\* search_hybrid called with any k_points the schema admits, with or without
\* a user
HybridInit ==
    /\ chat_pc = "search"
    /\ request \in [message : {"q1"}, use_rag : {TRUE}, k_points : MinKPoints..MaxKPoints,
                    user_id : {0, 1}]
    /\ session_messages = <<[role |-> "user", content |-> "q1"]>>
    /\ conversation_history = <<>>
    /\ context = <<>>
    /\ ChatLocalsInit

\* chat_completion called with any history, message and context
LLMInit ==
    /\ chat_pc = "llm"
    /\ request \in [message : Contents, use_rag : BOOLEAN, k_points : {MinKPoints},
                    user_id : {1}]
    /\ conversation_history \in SeqsUpTo(Messages, MaxHistory)
    /\ session_messages = conversation_history
    /\ context \in {<<>>, <<"">>, <<"ctx">>}
    /\ ChatLocalsInit

\* the chat part at rest
ChatIdle ==
    /\ chat_pc = "idle"
    /\ request = [message |-> "q1", use_rag |-> FALSE, k_points |-> MinKPoints, user_id |-> 1]
    /\ session_messages = <<>>
    /\ conversation_history = <<>>
    /\ context = <<>>
    /\ ChatLocalsInit

ChatNext ==
    \/ ChatReceive
    \/ ChatStoreUserMessage
    \/ ChatRetrieve
    \/ ChatRetrieveFails
    \/ ChatLoadHistory
    \/ ChatLLM
    \/ ChatLLMFails
    \/ ChatSaveAssistant
    \/ ChatRespond

HybridNext == ChatRetrieve \/ ChatRetrieveFails

LLMNext == ChatLLM \/ ChatLLMFails

(***************************************************************************)
(* Bounds of the vector store model                                        *)
(***************************************************************************)
\* users, 1..NumUsers
NumUsers == 2

\* points written in one behaviour
MaxUuid == 2

Users == 1..NumUsers

\* the two coroutines that call the store concurrently
Coroutines == {1, 2}

(***************************************************************************)
(* QdrantVectorStore                                                       *)
(***************************************************************************)
\* settings.collection_name
DefaultCollection == "documents"

\* get_user_collection_name
UserCollectionName(user_id) == "user_" \o ToString(user_id) \o "_collection"

CollectionNames == {DefaultCollection} \cup {UserCollectionName(u) : u \in Users}

\* the metadata a caller of add_user_message may pass: None, or a dict with
\* or without a user_id of its own
CallerMetadata ==
    {<<>>} \cup {<<[content_type |-> "chat_message"]>>}
           \cup {<<[content_type |-> "chat_message", user_id |-> u]>> : u \in Users}

\* mutant: the caller's keys win over the ones add_user_message sets
DictUpdateKeepsOld(d, other) ==
    [key \in DOMAIN d \cup DOMAIN other |->
        IF key \in DOMAIN d THEN d[key] ELSE other[key]]

\* dict.update(other): the keys of `other` win
DictUpdate(d, other) ==
    [key \in DOMAIN d \cup DOMAIN other |->
        IF key \in DOMAIN other THEN other[key] ELSE d[key]]

\* add_user_message: `if metadata is None: metadata = {}` and
\* metadata.update({"user_id": user_id, "message_type": "user_message", ...})
AddUserMessageMetadata(metadata, user_id) ==
    DictUpdate(IF metadata = <<>> THEN [key \in {} |-> 0] ELSE metadata[1],
               [user_id |-> user_id, message_type |-> "user_message"])

\* Filter(must=[FieldCondition(key="metadata.<key>", match=value), ...]): a
\* point matches when its metadata holds every key with that value
MatchesFilter(point, filter_metadata) ==
    \A key \in DOMAIN filter_metadata :
        key \in DOMAIN point.metadata /\ point.metadata[key] = filter_metadata[key]

\* search_user_messages: filter_metadata["user_id"] = user_id
UserMessagesFilter(user_id) == [user_id |-> user_id]

\* client.search(limit=k): up to k of the matching points (which ones is for
\* the scores to decide)
SearchAnswers(collection, filter_metadata, k) ==
    LET matching == {pt \in points[collection] : MatchesFilter(pt, filter_metadata)}
        n == Min2(Max2(1, k), Cardinality(matching))
    IN {res \in SUBSET matching : Cardinality(res) = n}

IdleCoroutine ==
    [pc |-> "idle", op |-> "none", user_id |-> 0, collection |-> "", point |-> <<>>,
     result |-> {}, error |-> "none"]

\* add_user_message up to the first await (get_collections in
\* _ensure_collection_exists): the metadata, the id, the point to write.
\* written_by and overrides are history: the user_id argument of the call,
\* and whether the caller's metadata carried the user_id of somebody else.
CallAddUserMessage(c) ==
    /\ coroutine[c].pc = "idle"
    /\ next_uuid <= MaxUuid
    /\ \E user_id \in Users, metadata \in CallerMetadata :
          coroutine' = [coroutine EXCEPT ![c] =
              [IdleCoroutine EXCEPT
                  !.pc = "get_collections",
                  !.op = "add_user_message",
                  !.user_id = user_id,
                  !.collection = UserCollectionName(user_id),
                  !.point = <<[id |-> next_uuid,
                               text |-> "message",
                               metadata |-> AddUserMessageMetadata(metadata, user_id),
                               written_by |-> user_id,
                               overrides |-> /\ metadata # <<>>
                                             /\ "user_id" \in DOMAIN metadata[1]
                                             /\ metadata[1]["user_id"] # user_id]>>]]
    /\ next_uuid' = next_uuid + 1
    /\ UNCHANGED <<collections, points>>
    /\ UNCHANGED notStore

\* search_user_messages (as search_hybrid calls it) up to the first await
CallSearchUserMessages(c) ==
    /\ coroutine[c].pc = "idle"
    /\ \E user_id \in Users :
          coroutine' = [coroutine EXCEPT ![c] =
              [IdleCoroutine EXCEPT
                  !.pc = "get_collections",
                  !.op = "search_user_messages",
                  !.user_id = user_id,
                  !.collection = UserCollectionName(user_id)]]
    /\ UNCHANGED <<collections, points, next_uuid>>
    /\ UNCHANGED notStore

\* _ensure_collection_exists: the answer of get_collections decides whether
\* create_collection is called
EnsureGetCollections(c) ==
    /\ coroutine[c].pc = "get_collections"
    /\ coroutine' = [coroutine EXCEPT ![c].pc =
            IF coroutine[c].collection \notin collections
            THEN "create_collection" ELSE "operate"]
    /\ UNCHANGED <<collections, points, next_uuid>>
    /\ UNCHANGED notStore

\* _ensure_collection_exists: create_collection.  The server creates the
\* collection, or rejects the call when a collection of that name exists
\* (409 Conflict); the error is logged and re-raised up to the caller.
EnsureCreateCollection(c) ==
    /\ coroutine[c].pc = "create_collection"
    /\ IF coroutine[c].collection \notin collections
       THEN /\ collections' = collections \cup {coroutine[c].collection}
            /\ coroutine' = [coroutine EXCEPT ![c].pc = "operate"]
       ELSE /\ collections' = collections
            /\ coroutine' = [coroutine EXCEPT ![c].pc = "failed",
                                              ![c].error = "already_exists"]
    /\ UNCHANGED <<points, next_uuid>>
    /\ UNCHANGED notStore

\* add_texts: client.upsert of the one point
StoreUpsert(c) ==
    /\ coroutine[c].pc = "operate"
    /\ coroutine[c].op = "add_user_message"
    /\ points' = [points EXCEPT ![coroutine[c].collection] = @ \cup {coroutine[c].point[1]}]
    /\ coroutine' = [coroutine EXCEPT ![c].pc = "done"]
    /\ UNCHANGED <<collections, next_uuid>>
    /\ UNCHANGED notStore

\* similarity_search: client.search in the user's collection with the
\* user_id filter
StoreSearch(c) ==
    /\ coroutine[c].pc = "operate"
    /\ coroutine[c].op = "search_user_messages"
    /\ \E k \in 1..MaxHits :
        \E res \in SearchAnswers(coroutine[c].collection,
                                 UserMessagesFilter(coroutine[c].user_id), k) :
            coroutine' = [coroutine EXCEPT ![c].pc = "done", ![c].result = res]
    /\ UNCHANGED <<collections, points, next_uuid>>
    /\ UNCHANGED notStore

\* the call returns, or its error reaches the caller
StoreReturn(c) ==
    /\ coroutine[c].pc \in {"done", "failed"}
    /\ coroutine' = [coroutine EXCEPT ![c] = IdleCoroutine]
    /\ UNCHANGED <<collections, points, next_uuid>>
    /\ UNCHANGED notStore

\* an empty server
QdrantInit ==
    /\ collections = {}
    /\ points = [name \in CollectionNames |-> {}]
    /\ next_uuid = 1

StoreInit == coroutine = [c \in Coroutines |-> IdleCoroutine]

StoreNext ==
    \E c \in Coroutines :
        \/ CallAddUserMessage(c)
        \/ CallSearchUserMessages(c)
        \/ EnsureGetCollections(c)
        \/ EnsureCreateCollection(c)
        \/ StoreUpsert(c)
        \/ StoreSearch(c)
        \/ StoreReturn(c)

(***************************************************************************)
(* RAGService.process_document                                             *)
(***************************************************************************)
\* Document rows written in one behaviour
MaxDocuments == 2

\* the two ingest requests that may run concurrently
IngestRequests == {1, 2}

\* DocumentCreate.content: a text of no chunk and a text of three chunks
\* under the settings of the model
DocContents == {<<>>, <<"a", "a", "a", "a", "a", "a">>}

\* DocumentCreate.chunk_size / chunk_overlap: the schema takes any integers.
\* A well-formed configuration that is not the settings' (a smaller
\* chunk_size with the same overlap), and a non-positive chunk_size (which
\* the overlap is not below).
RequestConfigs ==
    {[chunk_size |-> SettingsChunkSize - 1, chunk_overlap |-> SettingsChunkOverlap],
     [chunk_size |-> -1, chunk_overlap |-> SettingsChunkOverlap]}

IdleIngest ==
    [pc |-> "idle", user_id |-> 0, document_id |-> 0, content |-> <<>>,
     chunk_size |-> 0, chunk_overlap |-> 0,
     chunks |-> <<>>, chunk_ids |-> <<>>, failed_at |-> "none"]

\* the `except` of process_document: db.rollback() drops what the session
\* has not committed (the committed rows stay) and the error is re-raised
IngestFailure(r, stage) ==
    ingest' = [ingest EXCEPT ![r].pc = "failed", ![r].failed_at = stage]

\* mutant: the Document row is committed as processed from the start
IngestCreateProcessed(r) ==
    /\ ingest[r].pc = "idle"
    /\ next_document_id <= MaxDocuments
    /\ \E user_id \in Users, content \in DocContents, config \in RequestConfigs :
          /\ db_documents' = db_documents \cup
                {[id |-> next_document_id, owner_id |-> user_id, is_processed |-> TRUE]}
          /\ ingest' = [ingest EXCEPT ![r] =
                [IdleIngest EXCEPT !.pc = "embed", !.user_id = user_id,
                                   !.document_id = next_document_id,
                                   !.content = content,
                                   !.chunk_size = config.chunk_size,
                                   !.chunk_overlap = config.chunk_overlap]]
    /\ next_document_id' = next_document_id + 1
    /\ UNCHANGED <<db_chunks, qdrantVars, deleting>>
    /\ UNCHANGED notIngest

\* lines 31-43: the Document row is added with is_processed = False and
\* committed
IngestCreate(r) ==
    /\ ingest[r].pc = "idle"
    /\ next_document_id <= MaxDocuments
    /\ \E user_id \in Users, content \in DocContents, config \in RequestConfigs :
          /\ db_documents' = db_documents \cup
                {[id |-> next_document_id, owner_id |-> user_id, is_processed |-> FALSE]}
          /\ ingest' = [ingest EXCEPT ![r] =
                [IdleIngest EXCEPT !.pc = "embed", !.user_id = user_id,
                                   !.document_id = next_document_id,
                                   !.content = content,
                                   !.chunk_size = config.chunk_size,
                                   !.chunk_overlap = config.chunk_overlap]]
    /\ next_document_id' = next_document_id + 1
    /\ UNCHANGED <<db_chunks, qdrantVars, deleting>>
    /\ UNCHANGED notIngest

\* the first commit fails: no row is written
IngestCreateFails(r) ==
    /\ ingest[r].pc = "idle"
    /\ next_document_id <= MaxDocuments
    /\ ingest' = [ingest EXCEPT ![r] =
                [IdleIngest EXCEPT !.pc = "failed", !.failed_at = "create"]]
    /\ UNCHANGED <<db_documents, db_chunks, next_document_id, qdrantVars, deleting>>
    /\ UNCHANGED notIngest

\* lines 45-50: the service's splitter (built from the settings) splits the
\* content and the embedder encodes the chunks; a split that does not return
\* never leaves this step
IngestEmbed(r) ==
    /\ ingest[r].pc = "embed"
    /\ LET split == SplitText(ingest[r].content, InitChunkSize(0), InitChunkOverlap(0))
       IN ingest' = [ingest EXCEPT ![r].pc = IF split.returns THEN "upsert" ELSE "hung",
                                   ![r].chunks = split.chunks]
    /\ UNCHANGED <<db_documents, db_chunks, next_document_id, qdrantVars, deleting>>
    /\ UNCHANGED notIngest

\* encode_async raises
IngestEmbedFails(r) ==
    /\ ingest[r].pc = "embed"
    /\ SplitText(ingest[r].content, InitChunkSize(0), InitChunkOverlap(0)).returns
    /\ IngestFailure(r, "embed")
    /\ UNCHANGED <<db_documents, db_chunks, next_document_id, qdrantVars, deleting>>
    /\ UNCHANGED notIngest

\* mutant: the chunk index of the metadata is counted from 1
ChunkMetadataOneBased(document_id, i, user_id) ==
    [document_id |-> document_id, chunk_index |-> i + 1, user_id |-> user_id,
     content_type |-> "document_chunk"]

\* the metadata of chunk i (0-based) of the document
ChunkMetadata(document_id, i, user_id) ==
    [document_id |-> document_id, chunk_index |-> i, user_id |-> user_id,
     content_type |-> "document_chunk"]

\* lines 52-68 and add_texts: one point per chunk, with a fresh uuid each, is
\* upserted into the shared collection (created when absent)
IngestUpsert(r) ==
    /\ ingest[r].pc = "upsert"
    /\ LET n == Len(ingest[r].chunks)
           ids == [i \in 1..n |-> next_uuid + i - 1]
       IN /\ points' = [points EXCEPT ![DefaultCollection] = @ \cup
                {[id |-> ids[i],
                  text |-> ingest[r].chunks[i],
                  metadata |-> ChunkMetadata(ingest[r].document_id, i - 1,
                                             ingest[r].user_id)] : i \in 1..n}]
          /\ next_uuid' = next_uuid + n
          /\ ingest' = [ingest EXCEPT ![r].pc = "persist", ![r].chunk_ids = ids]
    /\ collections' = collections \cup {DefaultCollection}
    /\ UNCHANGED <<db_documents, db_chunks, next_document_id, deleting>>
    /\ UNCHANGED notIngest

\* a call of add_texts to the vector store raises
IngestUpsertFails(r) ==
    /\ ingest[r].pc = "upsert"
    /\ IngestFailure(r, "upsert")
    /\ UNCHANGED <<db_documents, db_chunks, next_document_id, qdrantVars, deleting>>
    /\ UNCHANGED notIngest

\* lines 70-85: the DocumentChunk rows are added, is_processed is set and
\* both are committed.  The UPDATE of a Document row that a concurrent
\* delete_document removed matches no row and the commit raises.
IngestPersist(r) ==
    /\ ingest[r].pc = "persist"
    /\ \E d \in db_documents : d.id = ingest[r].document_id
    /\ db_chunks' = db_chunks \cup
            {[document_id |-> ingest[r].document_id, chunk_index |-> i - 1,
              embedding_id |-> ingest[r].chunk_ids[i], content |-> ingest[r].chunks[i]] :
                i \in 1..Min2(Len(ingest[r].chunks), Len(ingest[r].chunk_ids))}
    /\ db_documents' =
            {IF d.id = ingest[r].document_id THEN [d EXCEPT !.is_processed = TRUE] ELSE d :
                d \in db_documents}
    /\ ingest' = [ingest EXCEPT ![r].pc = "done"]
    /\ UNCHANGED <<next_document_id, qdrantVars, deleting>>
    /\ UNCHANGED notIngest

\* the second commit fails
IngestPersistFails(r) ==
    /\ ingest[r].pc = "persist"
    /\ IngestFailure(r, "persist")
    /\ UNCHANGED <<db_documents, db_chunks, next_document_id, qdrantVars, deleting>>
    /\ UNCHANGED notIngest

\* process_document returns the document or raises; the request is over
IngestReturn(r) ==
    /\ ingest[r].pc \in {"done", "failed"}
    /\ ingest' = [ingest EXCEPT ![r] = IdleIngest]
    /\ UNCHANGED <<db_documents, db_chunks, next_document_id, qdrantVars, deleting>>
    /\ UNCHANGED notIngest

(***************************************************************************)
(* RAGService.delete_document                                              *)
(***************************************************************************)
\* the delete request that runs beside the ingests
DeleteRequests == {1}

IdleDelete ==
    [pc |-> "idle", user_id |-> 0, document_id |-> 0, chunk_ids |-> {},
     result |-> "none"]

\* mutant: the document is looked up by its id alone
SelectDocumentOfAnyOwner(document_id, user_id) ==
    {d \in db_documents : d.id = document_id}

\* select(Document).filter(Document.id == document_id,
\*                         Document.owner_id == user.id)
SelectDocument(document_id, user_id) ==
    {d \in db_documents : d.id = document_id /\ d.owner_id = user_id}

\* document.chunks: the DocumentChunk rows of the document
ChunksOf(document_id) == {ch \in db_chunks : ch.document_id = document_id}

\* lines 286-301: the document is looked up by id and owner; without a row
\* the call returns False, otherwise the embedding ids of its chunks are
\* collected
DeleteSelect(q) ==
    /\ deleting[q].pc = "idle"
    /\ \E user_id \in Users, document_id \in 1..MaxDocuments :
          deleting' = [deleting EXCEPT ![q] =
              IF SelectDocument(document_id, user_id) = {}
              THEN [IdleDelete EXCEPT !.pc = "done", !.user_id = user_id,
                                      !.document_id = document_id, !.result = "False"]
              ELSE LET chunk_ids == {ch.embedding_id : ch \in ChunksOf(document_id)}
                   IN [IdleDelete EXCEPT
                          !.pc = IF chunk_ids # {} THEN "delete_texts" ELSE "delete_row",
                          !.user_id = user_id,
                          !.document_id = document_id,
                          !.chunk_ids = chunk_ids]]
    /\ UNCHANGED <<db_documents, db_chunks, next_document_id, ingest, qdrantVars>>
    /\ UNCHANGED notIngest

\* the select, or the load of document.chunks, raises
DeleteSelectFails(q) ==
    /\ deleting[q].pc = "idle"
    /\ deleting' = [deleting EXCEPT ![q] = [IdleDelete EXCEPT !.pc = "failed"]]
    /\ UNCHANGED <<db_documents, db_chunks, next_document_id, ingest, qdrantVars>>
    /\ UNCHANGED notIngest

\* lines 303-305 and delete_texts: client.delete of the ids in the shared
\* collection
DeleteTexts(q) ==
    /\ deleting[q].pc = "delete_texts"
    /\ points' = [points EXCEPT ![DefaultCollection] =
                      {pt \in @ : pt.id \notin deleting[q].chunk_ids}]
    /\ deleting' = [deleting EXCEPT ![q].pc = "delete_row"]
    /\ UNCHANGED <<db_documents, db_chunks, next_document_id, ingest,
                   collections, next_uuid>>
    /\ UNCHANGED notIngest

\* delete_texts raises
DeleteTextsFails(q) ==
    /\ deleting[q].pc = "delete_texts"
    /\ deleting' = [deleting EXCEPT ![q].pc = "failed"]
    /\ UNCHANGED <<db_documents, db_chunks, next_document_id, ingest, qdrantVars>>
    /\ UNCHANGED notIngest

\* lines 307-312: db.delete(document) and the commit.  Document.chunks has
\* no delete cascade and DocumentChunk.document_id is not nullable
\* (models.py), so the commit can only succeed for a document without
\* chunk rows; with chunk rows it raises (DeleteRowFails).
DeleteRow(q) ==
    /\ deleting[q].pc = "delete_row"
    /\ ChunksOf(deleting[q].document_id) = {}
    /\ db_documents' = {d \in db_documents : d.id # deleting[q].document_id}
    /\ deleting' = [deleting EXCEPT ![q].pc = "done", ![q].result = "True"]
    /\ UNCHANGED <<db_chunks, next_document_id, ingest, qdrantVars>>
    /\ UNCHANGED notIngest

\* the commit raises; db.rollback() leaves the rows as they were
DeleteRowFails(q) ==
    /\ deleting[q].pc = "delete_row"
    /\ deleting' = [deleting EXCEPT ![q].pc = "failed"]
    /\ UNCHANGED <<db_documents, db_chunks, next_document_id, ingest, qdrantVars>>
    /\ UNCHANGED notIngest

\* delete_document returns True or False, or raises; the request is over
DeleteReturn(q) ==
    /\ deleting[q].pc \in {"done", "failed"}
    /\ deleting' = [deleting EXCEPT ![q] = IdleDelete]
    /\ UNCHANGED <<db_documents, db_chunks, next_document_id, ingest, qdrantVars>>
    /\ UNCHANGED notIngest

\* an empty relational store and no request
IngestInit ==
    /\ db_documents = {}
    /\ db_chunks = {}
    /\ next_document_id = 1
    /\ ingest = [r \in IngestRequests |-> IdleIngest]
    /\ deleting = [q \in DeleteRequests |-> IdleDelete]

IngestStep(r) ==
    \/ IngestCreate(r)
    \/ IngestCreateFails(r)
    \/ IngestEmbed(r)
    \/ IngestEmbedFails(r)
    \/ IngestUpsert(r)
    \/ IngestUpsertFails(r)
    \/ IngestPersist(r)
    \/ IngestPersistFails(r)
    \/ IngestReturn(r)

IngestNext == \E r \in IngestRequests : IngestStep(r)

DeleteStep(q) ==
    \/ DeleteSelect(q)
    \/ DeleteSelectFails(q)
    \/ DeleteTexts(q)
    \/ DeleteTextsFails(q)
    \/ DeleteRow(q)
    \/ DeleteRowFails(q)
    \/ DeleteReturn(q)

\* one ingest request at a time, and delete requests beside it
DocumentsNext == IngestStep(1) \/ \E q \in DeleteRequests : DeleteStep(q)

(***************************************************************************)
(* chat_with_rag over the documents that process_document stored           *)
(***************************************************************************)
\* the raw scores of the searches of this part: 6/7, whose weighted score
\* is on the floor, and 1.0
StoreScores == {(Threshold * 10) \div DocumentsWeight, ScoreOne}

\* the orders a set of points can be returned in
Orderings(S) ==
    {f \in [1..Cardinality(S) -> S] : \A i, j \in 1..Cardinality(S) : i # j => f[i] # f[j]}

\* similarity_search, lines 217-235: up to max(1, k) matching points, as
\* (text, score, metadata) in descending order of score
StoreResults(collection, filter_metadata, k) ==
    UNION {{[i \in 1..Cardinality(res) |->
                [text |-> f[i].text, score |-> g[i], metadata |-> f[i].metadata]] :
                <<f, g>> \in Orderings(res)
                              \X {h \in [1..Cardinality(res) -> StoreScores] : Descending(h)}} :
           res \in SearchAnswers(collection, filter_metadata, k)}

\* mutant: the document search filters on the content type alone
DocumentFilterTypeOnly(user_id) == [content_type |-> "document_chunk"]

\* search_hybrid: filter_metadata of the document search
DocumentFilter(user_id) == [user_id |-> user_id, content_type |-> "document_chunk"]

\* chat.py 92-137 and search_hybrid for a user: both searches run on the
\* store as it is (each one making sure its collection exists), the results
\* are fused and the context is built
ChatRetrieveFromStore ==
    /\ chat_pc = "search"
    /\ request.use_rag
    /\ request.user_id # 0
    /\ document_k' = DocumentK(request.k_points)
    /\ message_k' = MessageK(request.k_points)
    /\ document_results' \in
          StoreResults(DefaultCollection, DocumentFilter(request.user_id), document_k')
    /\ message_results' \in
          StoreResults(UserCollectionName(request.user_id),
                       UserMessagesFilter(request.user_id), message_k')
    /\ collections' = collections \cup {DefaultCollection,
                                         UserCollectionName(request.user_id)}
    /\ similar_docs' = FuseResults(document_results', message_results', request.k_points)
    /\ IF similar_docs' # <<>>
       THEN LET kept == Surviving(similar_docs')
            IN /\ context_parts' = [i \in 1..Len(kept) |-> kept[i].text]
               /\ sources' = <<[i \in 1..Len(kept) |-> SourceName(kept[i].metadata)]>>
               /\ k_points_used' = Len(kept)
               /\ context' = IF kept # <<>>
                             THEN <<Join(context_parts', "\n\n")>>
                             ELSE <<>>
       ELSE UNCHANGED <<context_parts, sources, k_points_used, context>>
    /\ chat_pc' = "history"
    /\ UNCHANGED <<request, session_messages, private_writes, conversation_history,
                   llm_messages, response>>
    /\ UNCHANGED <<points, next_uuid>>
    /\ UNCHANGED <<splitVars, storeVars, ingestVars, embedVars>>

\* the chat requests of this part: user 1 asks for retrieval, beside the
\* ingests of every user
IsolationChatInit ==
    /\ chat_pc = "search"
    /\ request \in [message : {"q1"}, use_rag : {TRUE}, k_points : {MaxK}, user_id : {1}]
    /\ session_messages = <<[role |-> "user", content |-> "q1"]>>
    /\ conversation_history = <<>>
    /\ context = <<>>
    /\ ChatLocalsInit

\* the request is over and the next one arrives
ChatNextRequest ==
    /\ chat_pc = "history"
    /\ chat_pc' = "search"
    /\ request' \in [message : {"q1"}, use_rag : {TRUE}, k_points : {MaxK}, user_id : {1}]
    /\ document_k' = 0
    /\ message_k' = 0
    /\ document_results' = <<>>
    /\ message_results' = <<>>
    /\ similar_docs' = <<>>
    /\ context_parts' = <<>>
    /\ sources' = <<>>
    /\ k_points_used' = 0
    /\ context' = <<>>
    /\ UNCHANGED <<session_messages, private_writes, conversation_history, llm_messages,
                   response>>
    /\ UNCHANGED notChat

\* ingests of any users, one at a time, and chats beside them
IsolationNext == IngestStep(1) \/ ChatRetrieveFromStore \/ ChatNextRequest

(***************************************************************************)
(* EmbeddingModel: encode_async on the executor, and the event loop        *)
(***************************************************************************)
\* the concurrent requests of the embedder specification
NumRequests == 4

\* ThreadPoolExecutor(max_workers=2)
MaxWorkers == 2

EmbedRequests == 1..NumRequests

\* the threads of self.executor
Workers == 1..MaxWorkers

\* the thread that runs the event loop and every coroutine: thread 0, the
\* workers being threads 1..MaxWorkers
EventLoop == 0

\* a coroutine runs only while no synchronous call occupies the loop's thread
LoopFree == \A e \in encoding : e.thread # EventLoop

\* mutant: encode_async calls self.encode itself instead of handing it over
EmbedSubmitInline(r) ==
    /\ LoopFree
    /\ embed_requests[r].needs_embedding
    /\ embed_requests[r].pc = "start"
    /\ encoding' = encoding \cup {[request |-> r, thread |-> EventLoop]}
    /\ embed_requests' = [embed_requests EXCEPT ![r].pc = "awaiting"]
    /\ UNCHANGED work_queue
    /\ UNCHANGED notEmbed

\* encode_async, lines 44-49: loop.run_in_executor(self.executor, self.encode,
\* texts) puts the call on the executor's queue and the coroutine awaits
EmbedSubmit(r) ==
    /\ LoopFree
    /\ embed_requests[r].needs_embedding
    /\ embed_requests[r].pc = "start"
    /\ work_queue' = Append(work_queue, r)
    /\ embed_requests' = [embed_requests EXCEPT ![r].pc = "awaiting"]
    /\ UNCHANGED encoding
    /\ UNCHANGED notEmbed

\* a worker thread of the executor that runs no call takes the oldest
\* submitted one and enters self.encode (lines 28-42)
WorkerTake(w) ==
    /\ work_queue # <<>>
    /\ \A e \in encoding : e.thread # w
    /\ encoding' = encoding \cup {[request |-> Head(work_queue), thread |-> w]}
    /\ work_queue' = Tail(work_queue)
    /\ UNCHANGED embed_requests
    /\ UNCHANGED notEmbed

\* self.encode returns or raises on its worker: the future is done
WorkerFinish(w) ==
    \E e \in encoding :
        /\ e.thread = w
        /\ encoding' = encoding \ {e}
        /\ embed_requests' = [embed_requests EXCEPT ![e.request].pc = "ready"]
        /\ UNCHANGED work_queue
        /\ UNCHANGED notEmbed

\* the event loop resumes the coroutine that awaited the future
EmbedResume(r) ==
    /\ LoopFree
    /\ embed_requests[r].pc = "ready"
    /\ embed_requests' = [embed_requests EXCEPT ![r].pc = "done"]
    /\ UNCHANGED <<work_queue, encoding>>
    /\ UNCHANGED notEmbed

\* a request that needs no embedding runs on the event loop to its end
PlainRun(r) ==
    /\ LoopFree
    /\ ~embed_requests[r].needs_embedding
    /\ embed_requests[r].pc = "start"
    /\ embed_requests' = [embed_requests EXCEPT ![r].pc = "done"]
    /\ UNCHANGED <<work_queue, encoding>>
    /\ UNCHANGED notEmbed

\* the requests in flight: any mix of those that embed and those that do not
EmbedInit ==
    /\ embed_requests \in [EmbedRequests -> [needs_embedding : BOOLEAN, pc : {"start"}]]
    /\ work_queue = <<>>
    /\ encoding = {}

\* the embedder at rest
EmbedIdle ==
    /\ embed_requests = [r \in EmbedRequests |-> [needs_embedding |-> FALSE, pc |-> "done"]]
    /\ work_queue = <<>>
    /\ encoding = {}

EmbedNext ==
    \/ \E r \in EmbedRequests : EmbedSubmit(r)
    \/ \E w \in Workers : WorkerTake(w)
    \/ \E w \in Workers : WorkerFinish(w)
    \/ \E r \in EmbedRequests : EmbedResume(r)
    \/ \E r \in EmbedRequests : PlainRun(r)

(***************************************************************************)
(* Specifications                                                          *)
(***************************************************************************)
InitSplit == SplitInit /\ ChatIdle /\ QdrantInit /\ StoreInit /\ IngestInit /\ EmbedIdle

SpecSplit == InitSplit /\ [][SplitNext]_vars

InitChat == ChatInit /\ SplitIdle /\ QdrantInit /\ StoreInit /\ IngestInit /\ EmbedIdle

SpecChat == InitChat /\ [][ChatNext]_vars

InitHybrid == HybridInit /\ SplitIdle /\ QdrantInit /\ StoreInit /\ IngestInit /\ EmbedIdle

SpecHybrid == InitHybrid /\ [][HybridNext]_vars

InitLLM == LLMInit /\ SplitIdle /\ QdrantInit /\ StoreInit /\ IngestInit /\ EmbedIdle

SpecLLM == InitLLM /\ [][LLMNext]_vars

InitStore == StoreInit /\ QdrantInit /\ SplitIdle /\ ChatIdle /\ IngestInit /\ EmbedIdle

SpecStore == InitStore /\ [][StoreNext]_vars

InitScenario == ScenarioInit /\ ChatIdle /\ QdrantInit /\ StoreInit /\ IngestInit /\ EmbedIdle

SpecScenario == InitScenario /\ [][SplitNext]_vars

InitIngest == IngestInit /\ QdrantInit /\ StoreInit /\ SplitIdle /\ ChatIdle /\ EmbedIdle

SpecIngest == InitIngest /\ [][IngestNext]_vars

SpecDocuments == InitIngest /\ [][DocumentsNext]_vars

InitIsolation ==
    IsolationChatInit /\ IngestInit /\ QdrantInit /\ StoreInit /\ SplitIdle /\ EmbedIdle

SpecIsolation == InitIsolation /\ [][IsolationNext]_vars

InitEmbed == EmbedInit /\ SplitIdle /\ ChatIdle /\ QdrantInit /\ StoreInit /\ IngestInit

SpecEmbed == InitEmbed /\ [][EmbedNext]_vars

(***************************************************************************)
(* Claims about split_text                                                 *)
(***************************************************************************)
\* C1: split_text terminates for every text and every configuration with
\* chunk_size >= 1 and 0 <= chunk_overlap < chunk_size.  The loop body is a
\* function of `start` alone (text and configuration never change), and with
\* such a configuration `start` stays within -chunk_overlap .. len(text), so
\* the loop terminates exactly when no iteration begins at a value of `start`
\* that an earlier iteration began at.
C1_SplitTerminates ==
    (chunk_size >= 1 /\ 0 <= chunk_overlap /\ chunk_overlap < chunk_size
     /\ split_pc = "loop")
        => start \notin Range(starts)

SplitReturned == split_pc = "done"

\* C11: splitting a normalized text of 2500 characters with chunk_size 1000
\* and chunk_overlap 200 yields exactly 3 chunks.
C11_ThreeChunks ==
    (SplitReturned /\ Len(text) = ScenarioLength) => Len(chunks) = 3

\* a configuration the constructor should be given
ValidConfig == chunk_size >= 1 /\ 0 <= chunk_overlap /\ chunk_overlap < chunk_size

\* the positions (0-based) of the normalized text that chunk i holds: its
\* window, cut to the text, without the whitespace strip() removes at the ends
ChunkPositions(i) ==
    LET n == Len(text)
        lo == ClampIdx(windows[i].start, n)
        hi == ClampIdx(windows[i].end, n)
        keep == {q \in lo..(hi - 1) : text[q + 1] \notin Whitespace}
    IN IF keep = {} THEN {} ELSE MinOf(keep)..MaxOf(keep)

Covered == UNION {ChunkPositions(i) : i \in 1..Len(chunks)}

\* every chunk is the text at its positions, and the chunks come in the
\* order of the text
ChunksInOrder ==
    /\ Len(windows) = Len(chunks)
    /\ \A i \in 1..Len(chunks) :
          /\ ChunkPositions(i) # {}
          /\ chunks[i] = SubSeq(text, MinOf(ChunkPositions(i)) + 1,
                                      MaxOf(ChunkPositions(i)) + 1)
    /\ \A i \in 1..(Len(chunks) - 1) :
          MinOf(ChunkPositions(i)) <= MinOf(ChunkPositions(i + 1))

C18_OverlapBound ==
    SplitReturned
        => \A i \in 1..(Len(chunks) - 1) :
              Cardinality(ChunkPositions(i) \cap ChunkPositions(i + 1)) <= chunk_overlap

C18_Witness ==
    /\ SplitReturned
    /\ \E i \in 1..(Len(chunks) - 1) :
          Cardinality(ChunkPositions(i) \cap ChunkPositions(i + 1)) = chunk_overlap

\* C19: no chunk of split_text is empty or whitespace-only, and an empty or
\* whitespace-only input returns the empty sequence.
C19_NoEmptyChunk ==
    /\ \A i \in 1..Len(chunks) : Strip(chunks[i]) # <<>>
    /\ (SplitReturned /\ \A i \in 1..Len(raw_text) : raw_text[i] \in Whitespace)
          => chunks = <<>>

C19_Witness ==
    /\ SplitReturned
    /\ raw_text # <<>>
    /\ \A i \in 1..Len(raw_text) : raw_text[i] \in Whitespace
    /\ chunks = <<>>

\* the maximal runs of non-whitespace characters of t, in order
RECURSIVE WordsOf(_, _)
WordsOf(t, word) ==
    IF t = <<>> THEN (IF word = <<>> THEN <<>> ELSE <<word>>)
    ELSE IF Head(t) \in Whitespace
         THEN (IF word = <<>> THEN <<>> ELSE <<word>>) \o WordsOf(Tail(t), <<>>)
         ELSE WordsOf(Tail(t), Append(word, Head(t)))

\* the words joined by single spaces
RECURSIVE JoinWords(_)
JoinWords(words) ==
    IF words = <<>> THEN <<>>
    ELSE IF Len(words) = 1 THEN words[1]
    ELSE words[1] \o <<" ">> \o JoinWords(Tail(words))

\* the whitespace-normalized form: runs of whitespace collapsed to single
\* spaces, ends trimmed
Normalized(t) == JoinWords(WordsOf(t, <<>>))

\* C20: for every text whose whitespace-normalized form is non-empty and not
\* longer than chunk_size, split_text returns exactly one chunk, equal to the
\* normalized text.
C20_ShortTextOneChunk ==
    (SplitReturned /\ Normalized(raw_text) # <<>>
                   /\ Len(Normalized(raw_text)) <= chunk_size)
        => chunks = <<Normalized(raw_text)>>

C20_Witness ==
    /\ SplitReturned
    /\ Len(Normalized(raw_text)) <= chunk_size
    /\ Len(Normalized(raw_text)) >= 3
    /\ Len(raw_text) > Len(Normalized(raw_text))
    /\ chunks = <<Normalized(raw_text)>>

(***************************************************************************)
(* Claims about chat_completion and generate_response                      *)
(***************************************************************************)
\* the provider has been called (successfully or not)
LLMCalled == chat_pc \in {"save_assistant", "store_assistant", "done", "failed_llm"}

NewUserMessage == [role |-> "user", content |-> request.message]

Last(s) == s[Len(s)]

\* the history ends with the new user message
HistoryEndsWithMessage ==
    conversation_history # <<>> /\ Last(conversation_history) = NewUserMessage

\* the messages sent to the provider without the injected system message
SentConversation ==
    IF llm_messages # <<>> /\ llm_messages[1].role = "system"
    THEN Tail(llm_messages) ELSE llm_messages

\* C5: chat_completion appends the new user message whenever it is not
\* already the last message of the history, so the conversation sent to the
\* provider then ends with the new user message - also when an earlier user
\* message of the history has the same content.
C5_AppendedUnlessLast ==
    (LLMCalled /\ ~HistoryEndsWithMessage)
        => /\ SentConversation = Append(conversation_history, NewUserMessage)
           /\ Last(llm_messages) = NewUserMessage

\* C6: when the history ends with the new user message (role "user", equal
\* content), the conversation sent to the provider is the history itself: it
\* ends with that message and the message is not appended a second time.
C6_NoDuplicateAppend ==
    (LLMCalled /\ HistoryEndsWithMessage)
        => /\ SentConversation = conversation_history
           /\ Last(llm_messages) = NewUserMessage
           /\ Len(SentConversation) = Len(conversation_history)

C6_Witness ==
    /\ LLMCalled
    /\ HistoryEndsWithMessage
    /\ Len(conversation_history) >= 2
    /\ llm_messages[1].role = "system"

(***************************************************************************)
(* Claims about the chat endpoint                                          *)
(***************************************************************************)
\* the retrieval step of the request is over
Retrieved == chat_pc \in {"history", "llm", "save_assistant", "store_assistant", "done",
                          "failed_llm"}

SystemCount == Cardinality({i \in 1..Len(llm_messages) : llm_messages[i].role = "system"})

\* C7: the messages sent to the provider start with exactly one injected
\* system message iff use_rag is set and at least one retrieved result
\* survived the relevance floor; the messages after it are the history
\* unchanged; with use_rag false, or with every candidate dropped, no system
\* message is sent and the messages are the history alone.
C7_SystemMessageIffContext ==
    LLMCalled =>
        IF request.use_rag /\ k_points_used > 0
        THEN /\ llm_messages[1].role = "system"
             /\ SystemCount = 1
             /\ Tail(llm_messages) = conversation_history
        ELSE /\ SystemCount = 0
             /\ llm_messages = conversation_history

C7_Witness ==
    /\ chat_pc = "done"
    /\ request.use_rag
    /\ llm_messages[1].role = "system"
    /\ k_points_used < Len(similar_docs)

\* C8: a retrieved result enters the context only if its score is strictly
\* greater than 0.6: a result with a score of exactly 0.6, or lower, adds no
\* text to the context and no source label, and is not counted in
\* k_points_used.
C8_StrictFloor ==
    (Retrieved /\ request.use_rag) =>
        LET above == {i \in 1..Len(similar_docs) : similar_docs[i].score > Threshold}
        IN /\ k_points_used = Cardinality(above)
           /\ Len(context_parts) = Cardinality(above)
           /\ (sources # <<>> => Len(sources[1]) = Cardinality(above))
           /\ \A i \in 1..Len(similar_docs) :
                 similar_docs[i].score <= Threshold
                    => similar_docs[i].text \notin Range(context_parts)

C8_Witness ==
    /\ Retrieved
    /\ request.use_rag
    /\ k_points_used = 1
    /\ \E i \in 1..Len(similar_docs) : similar_docs[i].score = Threshold

(***************************************************************************)
(* Claims about search_hybrid                                              *)
(***************************************************************************)
\* search_hybrid returned in hybrid mode
HybridReturned == Retrieved /\ request.use_rag /\ request.user_id # 0

Scores(results) == [i \in 1..Len(results) |-> results[i].score]

Texts(results) == [i \in 1..Len(results) |-> results[i].text]

\* the results of both sub-searches with their scores multiplied by the
\* weight of their source
WeightedUnion ==
    {[r EXCEPT !.score = (r.score * 7) \div 10] : r \in Range(document_results)}
        \cup {[r EXCEPT !.score = (r.score * 3) \div 10] : r \in Range(message_results)}

ExampleScores ==
    /\ Scores(document_results) = <<6300, 5600>>
    /\ Scores(message_results) = <<6650>>

\* C9: in hybrid mode search_hybrid returns results of the two sub-searches
\* with each score multiplied by the weight of its source, in descending
\* order of weighted score, as many as there are but at most k, and no
\* result left out has a higher weighted score than one returned; document
\* scores [0.9, 0.8] and message scores [0.95] come back as
\* [doc1, doc2, msg1].
C9_WeightedFusion ==
    HybridReturned =>
        /\ Len(similar_docs) =
              Min2(request.k_points, Len(document_results) + Len(message_results))
        /\ Range(similar_docs) \subseteq WeightedUnion
        /\ Cardinality(Range(similar_docs)) = Len(similar_docs)
        /\ Descending(Scores(similar_docs))
        /\ \A u \in WeightedUnion \ Range(similar_docs) :
              \A r \in Range(similar_docs) : r.score >= u.score
        /\ (ExampleScores /\ request.k_points >= 3
              => Texts(similar_docs) = <<"doc1", "doc2", "msg1">>)

C9_Witness ==
    /\ HybridReturned
    /\ ExampleScores
    /\ Texts(similar_docs) = <<"doc1", "doc2", "msg1">>
    /\ Scores(similar_docs) = <<4410, 3920, 1995>>

\* C10 as claimed: document_k = max(1, round(k * 0.7)) and
\* message_k = max(1, round(k * 0.3)) for every k in 1..20.
C10_SubKRounded ==
    HybridReturned =>
        /\ document_k = Max2(1, RoundTenths(request.k_points * 7))
        /\ message_k = Max2(1, RoundTenths(request.k_points * 3))

\* C10 amended: document_k = max(1, floor(k * 0.7)) and
\* message_k = max(1, floor(k * 0.3)) for every k in 1..20 (int() truncates);
\* for k = 5 they are 3 and 1.
C10_SubKTruncated ==
    HybridReturned =>
        LET k == request.k_points
        IN /\ k \in 1..20
           /\ document_k >= 1
           /\ message_k >= 1
           /\ (7 * k >= 10 => 10 * document_k <= 7 * k /\ 7 * k < 10 * (document_k + 1))
           /\ (7 * k < 10 => document_k = 1)
           /\ (3 * k >= 10 => 10 * message_k <= 3 * k /\ 3 * k < 10 * (message_k + 1))
           /\ (3 * k < 10 => message_k = 1)
           /\ (k = 5 => document_k = 3 /\ message_k = 1)

C10_Witness ==
    /\ HybridReturned
    /\ request.k_points = 5
    /\ document_k = 3
    /\ message_k = 1

(***************************************************************************)
(* Claims about the failures of a chat request                             *)
(***************************************************************************)
\* C14: when the provider call fails the error leaves chat_with_rag (no
\* response), the ChatMessage row of the user's message, committed before the
\* call, is still there, and no assistant row follows it.
C14_ProviderFailureKeepsUserMessage ==
    chat_pc = "failed_llm"
        => /\ response = <<>>
           /\ session_messages # <<>>
           /\ Last(session_messages) = [role |-> "user", content |-> request.message]

C14_Witness ==
    /\ chat_pc = "failed_llm"
    /\ Len(session_messages) >= 2
    /\ session_messages[Len(session_messages) - 1].content # request.message

\* C15: the writes of a chat turn to the private collection are best-effort:
\* whether add_user_message succeeds or fails, the request goes on after the
\* user turn and ends with a response after the assistant turn; a failed
\* hybrid search ends the request without a response, and a request that
\* gets past the search with use_rag has run it.
C15_OnlyPrivateWritesAreBestEffort ==
    [][/\ (chat_pc = "store_user" /\ chat_pc' # chat_pc) => chat_pc' = "search"
       /\ (chat_pc = "store_assistant" /\ chat_pc' # chat_pc)
            => chat_pc' = "done" /\ response' # <<>>
       /\ chat_pc = "failed_search" => chat_pc' = "failed_search" /\ response' = <<>>
       /\ (chat_pc = "search" /\ chat_pc' = "history" /\ request.use_rag)
            => document_k' >= 1]_vars

C15_Witness ==
    /\ chat_pc = "done"
    /\ response # <<>>
    /\ private_writes = <<>>
    /\ request.use_rag

(***************************************************************************)
(* Claims about the vector store                                           *)
(***************************************************************************)
\* C3: creating a collection is race-safe: whatever the interleaving of two
\* operations that reach _ensure_collection_exists for the same collection,
\* neither fails because the other one created the collection first.
C3_EnsureIsRaceSafe ==
    \A c \in Coroutines : coroutine[c].error # "already_exists"

AllPoints == UNION {points[name] : name \in CollectionNames}

\* C4: search_user_messages for user A never returns a record that
\* add_user_message wrote for another user B: every record lies in the
\* collection user_{id}_collection of its writer with metadata user_id forced
\* to the writer, and a search returns only records of the requesting user.
C4_CollectionIsolation ==
    /\ \A name \in CollectionNames : \A pt \in points[name] :
          /\ name = UserCollectionName(pt.written_by)
          /\ pt.metadata["user_id"] = pt.written_by
    /\ \A c \in Coroutines :
          (coroutine[c].op = "search_user_messages" /\ coroutine[c].pc = "done")
              => \A pt \in coroutine[c].result : pt.written_by = coroutine[c].user_id

C4_Witness ==
    /\ \E pt \in AllPoints : pt.written_by = 2 /\ pt.overrides
    /\ \E c \in Coroutines :
          /\ coroutine[c].op = "search_user_messages"
          /\ coroutine[c].pc = "done"
          /\ coroutine[c].user_id = 1
          /\ coroutine[c].result # {}

(***************************************************************************)
(* Claims about process_document                                           *)
(***************************************************************************)
\* C2: when the embedding step or the vector-store upsert of
\* process_document fails, no Document row of that ingest exists afterwards.
C2_FailedIngestLeavesNoDocument ==
    \A r \in IngestRequests :
        (ingest[r].pc = "failed" /\ ingest[r].failed_at \in {"embed", "upsert"})
            => ~ \E d \in db_documents : d.id = ingest[r].document_id

\* a chunk configuration the spec calls malformed
Malformed(size, overlap) == size <= 0 \/ overlap >= size

\* C13: an ingest request with a malformed chunk configuration (chunk_size
\* <= 0 or chunk_overlap >= chunk_size) is rejected by validation before any
\* external call: it never gets past the start of process_document, and no
\* Document row of it is written.
C13_MalformedConfigRejected ==
    \A r \in IngestRequests :
        (ingest[r].document_id # 0
         /\ Malformed(ingest[r].chunk_size, ingest[r].chunk_overlap))
            => /\ ingest[r].pc = "failed"
               /\ ingest[r].failed_at = "validation"
               /\ ~ \E d \in db_documents : d.id = ingest[r].document_id

(***************************************************************************)
(* Claims about delete_document                                            *)
(***************************************************************************)
\* the vectors of the shared collection that belong to a document
VectorsOf(store, document_id) ==
    {pt \in store[DefaultCollection] : pt.metadata.document_id = document_id}

\* the vectors of every other document, and the private collections
VectorsBeside(store, document_id) ==
    [name \in CollectionNames |->
        IF name = DefaultCollection
        THEN {pt \in store[name] : pt.metadata.document_id # document_id}
        ELSE store[name]]

\* C12: a successful delete_document of document D removes from the shared
\* collection exactly the vectors the ingest of D created: when it returns
\* True none of D's vectors remain, and no step of it changes a vector of
\* another document or a record of a private collection.
C12_DeleteRemovesItsVectors ==
    [][\A q \in DeleteRequests :
          /\ (deleting[q].result # "True" /\ deleting'[q].result = "True")
                => VectorsOf(points', deleting'[q].document_id) = {}
          /\ deleting'[q] # deleting[q]
                => LET document_id == IF deleting[q].pc = "idle"
                                      THEN deleting'[q].document_id
                                      ELSE deleting[q].document_id
                   IN VectorsBeside(points', document_id)
                          = VectorsBeside(points, document_id)]_vars

\* C16: delete_document returns False and changes nothing when the document
\* id does not exist or the document belongs to another user; only a request
\* of the owner removes a Document row.
C16_OnlyOwnerDeletes ==
    [][/\ \A q \in DeleteRequests :
            (/\ deleting[q].pc = "idle"
             /\ deleting'[q].pc \notin {"idle", "failed"}
             /\ ~ \E d \in db_documents : /\ d.id = deleting'[q].document_id
                                         /\ d.owner_id = deleting'[q].user_id)
                => /\ deleting'[q].pc = "done"
                   /\ deleting'[q].result = "False"
                   /\ UNCHANGED <<db_documents, db_chunks, points, collections>>
       /\ \A d \in {e \in db_documents : \A f \in db_documents' : f.id # e.id} :
            \E q \in DeleteRequests : /\ deleting[q].document_id = d.id
                                      /\ deleting[q].user_id = d.owner_id]_vars

C16_Witness ==
    \E q \in DeleteRequests :
        /\ deleting[q].pc = "done"
        /\ deleting[q].result = "False"
        /\ \E d \in db_documents : /\ d.id = deleting[q].document_id
                                    /\ d.owner_id # deleting[q].user_id
                                    /\ d.is_processed
                                    /\ VectorsOf(points, d.id) # {}

(***************************************************************************)
(* The response's counter and its sources                                  *)
(***************************************************************************)
\* the positions of the results that pass the floor, in their order
AboveFloor(results) == {i \in 1..Len(results) : results[i].score > Threshold}

\* the i-th smallest element of a set of numbers
RECURSIVE Nth(_, _)
Nth(S, i) == IF i = 1 THEN MinOf(S) ELSE Nth(S \ {MinOf(S)}, i - 1)

\* C21: in the returned response k_points_used is the number of retrieved
\* results that passed the floor; that is the number of context parts and,
\* whenever sources is a list, its length, the i-th label and the i-th part
\* coming from the i-th passing result; with use_rag false k_points_used and
\* sources are both null.
C21_CounterMatchesSources ==
    chat_pc = "done" =>
        LET r == response[1]
            above == AboveFloor(similar_docs)
        IN IF request.use_rag
           THEN /\ r.k_points_used = <<Cardinality(above)>>
                /\ Len(context_parts) = Cardinality(above)
                /\ \A i \in 1..Len(context_parts) :
                      context_parts[i] = similar_docs[Nth(above, i)].text
                /\ r.sources # <<>> =>
                      /\ Len(r.sources[1]) = Cardinality(above)
                      /\ \A i \in 1..Len(r.sources[1]) :
                            r.sources[1][i] = SourceName(similar_docs[Nth(above, i)].metadata)
           ELSE /\ r.k_points_used = <<>>
                /\ r.sources = <<>>

C21_Witness ==
    /\ chat_pc = "done"
    /\ request.use_rag
    /\ response[1].k_points_used = <<2>>
    /\ response[1].sources # <<>>
    /\ Len(similar_docs) = 3
    /\ similar_docs[3].score <= Threshold

\* C22: with use_rag false the request runs no search: no sub-search size
\* is computed, neither collection is asked, no retrieval error can end the
\* request, nothing is retrieved and the provider gets no context.
C22_NoRetrievalWithoutRag ==
    ~request.use_rag =>
        /\ chat_pc # "failed_search"
        /\ document_k = 0
        /\ message_k = 0
        /\ document_results = <<>>
        /\ message_results = <<>>
        /\ similar_docs = <<>>
        /\ context_parts = <<>>
        /\ context = <<>>
        /\ SystemCount = 0

C22_Witness ==
    /\ chat_pc = "done"
    /\ ~request.use_rag
    /\ llm_messages # <<>>
    /\ response[1].message = AnswerText

\* C29: with the weights 0.7 and 0.3 and the floor 0.6 on the weighted
\* score, no result of the private message collection enters the context or
\* the sources, whatever its raw score, and a document chunk enters only if
\* its raw score exceeds 0.6 / 0.7.
C29_OnlyStrongDocumentsEnter ==
    (Retrieved /\ request.use_rag) =>
        /\ \A j \in 1..Len(message_results) :
              message_results[j].text \notin Range(context_parts)
        /\ sources # <<>> => SourceName(MsgMetadata(request.user_id)) \notin Range(sources[1])
        /\ \A i \in 1..Len(context_parts) :
              \E j \in 1..Len(document_results) :
                 /\ document_results[j].text = context_parts[i]
                 /\ document_results[j].score * DocumentsWeight > RelevanceFloor * ScoreOne

C29_Witness ==
    /\ Retrieved
    /\ request.use_rag
    /\ message_results # <<>>
    /\ message_results[1].score = ScoreOne
    /\ Len(document_results) = 2
    /\ document_results[1].score < ScoreOne
    /\ document_results[2].score * DocumentsWeight = RelevanceFloor * ScoreOne
    /\ Len(context_parts) = 1
    /\ similar_docs[1].metadata.content_type = "document_chunk"

(***************************************************************************)
(* The embedder's pool                                                     *)
(***************************************************************************)
\* C27: every embedding requested through encode_async runs on a worker of
\* the executor and never on the event loop's thread; at most MaxWorkers
\* calls of the model are in progress, the others wait in the queue; and a
\* request that needs no embedding can take its step while embedding calls
\* are running or queued.
C27_EmbeddingsStayOnThePool ==
    /\ \A e \in encoding : e.thread \in Workers
    /\ Cardinality(encoding) <= MaxWorkers
    /\ \A r \in EmbedRequests :
          (embed_requests[r].needs_embedding /\ embed_requests[r].pc = "awaiting")
             <=> (r \in Range(work_queue) \/ \E e \in encoding : e.request = r)
    /\ \A r \in EmbedRequests :
          (~embed_requests[r].needs_embedding /\ embed_requests[r].pc = "start")
             => ENABLED PlainRun(r)

C27_Witness ==
    /\ Cardinality(encoding) = MaxWorkers
    /\ work_queue # <<>>
    /\ \E r \in EmbedRequests : embed_requests[r].pc = "done"
                                  /\ ~embed_requests[r].needs_embedding

(***************************************************************************)
(* Claims about the order and the outcome of process_document              *)
(***************************************************************************)
\* the moves of one call of process_document: its steps in their order,
\* the failure of a step, and the return
IngestOrder ==
    {<<"idle", "embed">>, <<"embed", "upsert">>, <<"upsert", "persist">>,
     <<"persist", "done">>,
     <<"idle", "failed">>, <<"embed", "failed">>, <<"embed", "hung">>,
     <<"upsert", "failed">>, <<"persist", "failed">>,
     <<"done", "idle">>, <<"failed", "idle">>}

\* the Document rows marked processed
Processed(rows) == {d.id : d \in {e \in rows : e.is_processed}}

\* every chunk row of the document has its vector, and the rows are as
\* many as the vectors
FullyStored(document_id) ==
    /\ \A ch \in ChunksOf(document_id) :
          \E pt \in VectorsOf(points, document_id) : pt.id = ch.embedding_id
    /\ Cardinality(ChunksOf(document_id)) = Cardinality(VectorsOf(points, document_id))

Quiescent ==
    /\ \A r \in IngestRequests : ingest[r].pc \in {"idle", "done", "failed"}
    /\ \A q \in DeleteRequests : deleting[q].pc \in {"idle", "done", "failed"}

\* C24: after any sequence of process_document and delete_document calls,
\* failed ones included, the ids of the vectors in the shared collection are
\* exactly the embedding ids of the persisted chunk rows.
C24_VectorsMatchChunkRows ==
    Quiescent =>
        {pt.id : pt \in points[DefaultCollection]} = {ch.embedding_id : ch \in db_chunks}

\* C25: a document split into n chunks gets exactly n vectors in the shared
\* collection, with the chunk indexes 0..n-1, each carrying the document's
\* id and the text of its chunk; and chunk row i holds the id of the vector
\* whose chunk index is i.
C25_OneVectorPerChunk ==
    \A r \in IngestRequests :
        ingest[r].pc \in {"persist", "done"} =>
            LET document_id == ingest[r].document_id
                n == Len(ingest[r].chunks)
                stored == VectorsOf(points, document_id)
            IN /\ Cardinality(stored) = n
               /\ {pt.metadata.chunk_index : pt \in stored} = 0..(n - 1)
               /\ \A pt \in stored :
                     /\ pt.metadata.chunk_index \in 0..(n - 1)
                     /\ pt.text = ingest[r].chunks[pt.metadata.chunk_index + 1]
               /\ ingest[r].pc = "done" =>
                     /\ {ch.chunk_index : ch \in ChunksOf(document_id)} = 0..(n - 1)
                     /\ Cardinality(ChunksOf(document_id)) = n
                     /\ \A ch \in ChunksOf(document_id) :
                           \E pt \in stored : /\ pt.id = ch.embedding_id
                                               /\ pt.metadata.chunk_index = ch.chunk_index
                                               /\ pt.text = ch.content

C25_Witness ==
    \E r \in IngestRequests :
        /\ ingest[r].pc = "done"
        /\ Len(ingest[r].chunks) = 3
        /\ Cardinality(points[DefaultCollection]) = 6
        /\ \E ch \in ChunksOf(ingest[r].document_id) :
              ch.chunk_index = 2 /\ ch.embedding_id > 3

\* C30: the chunk_size and chunk_overlap of the ingest request are the ones
\* its content is split with: the chunks of a request with a well-formed
\* configuration are those of a splitter built with that configuration.
C30_RequestConfigSplits ==
    \A r \in IngestRequests :
        (/\ ingest[r].pc \in {"upsert", "persist", "done"}
         /\ ~Malformed(ingest[r].chunk_size, ingest[r].chunk_overlap))
            => ingest[r].chunks =
                  SplitText(ingest[r].content,
                            InitChunkSize(ingest[r].chunk_size),
                            InitChunkOverlap(ingest[r].chunk_overlap)).chunks

(***************************************************************************)
(* Claims about the collections and about whose documents a chat sees      *)
(***************************************************************************)
\* C26: a collection comes into existence only as an effect of a write to
\* it: every step that adds a collection is a step of add_user_message (or
\* add_texts) on that collection, and a search leaves the set of existing
\* collections as it was.
C26_CreatedByWritesOnly ==
    [][collections' # collections =>
          \E c \in Coroutines :
             /\ coroutine'[c] # coroutine[c]
             /\ coroutine[c].op = "add_user_message"
             /\ collections' = collections \cup {coroutine[c].collection}]_vars

\* the owner of the document a result or a point belongs to
OwnersOf(document_id) == {d.owner_id : d \in {e \in db_documents : e.id = document_id}}

\* C28: every point of the shared collection carries the user_id of the
\* user who ingested its document, and what a chat of user A retrieves from
\* the shared collection, and so what enters A's context, comes from
\* documents of A alone.
C28_ContextOfOwnDocuments ==
    /\ \A pt \in points[DefaultCollection] :
          /\ pt.metadata.content_type = "document_chunk"
          /\ OwnersOf(pt.metadata.document_id) = {pt.metadata.user_id}
    /\ chat_pc = "history" =>
          /\ \A i \in 1..Len(document_results) :
                OwnersOf(document_results[i].metadata.document_id) = {request.user_id}
          /\ \A i \in 1..Len(similar_docs) :
                /\ similar_docs[i].metadata.user_id = request.user_id
                /\ OwnersOf(similar_docs[i].metadata.document_id) = {request.user_id}
          /\ \A i \in 1..Len(context_parts) :
                \E j \in 1..Len(document_results) :
                   document_results[j].text = context_parts[i]

C28_Witness ==
    /\ chat_pc = "history"
    /\ Len(context_parts) = 2
    /\ \E pt \in points[DefaultCollection] : pt.metadata.user_id # request.user_id
    /\ \E pt \in points[DefaultCollection] : pt.metadata.user_id = request.user_id

====
